---- MODULE Spec2Model ----
(***************************************************************************)
(* The WordPress publishing pipeline of the tech-blog repository.          *)
(*                                                                         *)
(* Two variants of the script are modelled side by side:                   *)
(*   "publish.js"  src/scripts/publish.js  (status filter on the lookup,   *)
(*                 payload always carries tags and categories, no media)   *)
(*   "part_006"    src/unnamed/part_006    (featured image support, lookup *)
(*                 by slug only, optional payload fields)                  *)
(*                                                                         *)
(* The remote WordPress site is the environment: four resource lists       *)
(* (posts, tags, categories, media) whose ids are their positions, and     *)
(* list requests answered in id order.                                     *)
(***************************************************************************)
EXTENDS Integers, Sequences, FiniteSets, TLC

(***************************************************************************)
(* Bounds of the model.                                                    *)
(***************************************************************************)
MaxPosts == 2
MaxTags == 2
MaxFaults == 1
MaxConcurrentPosts == 1

Runs == {1, 2}
Variants == {"publish.js", "part_006"}
Modes == {"single", "twice", "concurrent", "transport", "fair"}

(***************************************************************************)
(* Strings.                                                                *)
(***************************************************************************)
Contains(s, sub) ==
    \E p \in 1..(Len(s) - Len(sub) + 1) : SubSeq(s, p, p + Len(sub) - 1) = sub

LowerChar(c) ==
    CASE c = "J" -> "j"
      [] c = "B" -> "b"
      [] c = "G" -> "g"
      [] c = "L" -> "l"
      [] c = "O" -> "o"
      [] OTHER -> c

RECURSIVE ToLowerCase(_)
ToLowerCase(s) ==
    IF s = "" THEN ""
    ELSE LowerChar(SubSeq(s, 1, 1)) \o ToLowerCase(SubSeq(s, 2, Len(s)))

RECURSIVE LastDot(_)
LastDot(s) ==
    IF s = "" THEN 0
    ELSE IF SubSeq(s, Len(s), Len(s)) = "." THEN Len(s)
    ELSE LastDot(SubSeq(s, 1, Len(s) - 1))

\* The name under which the remote files an uploaded asset: the file name
\* without its extension.
MediaSlug(filename) ==
    IF LastDot(filename) = 0 THEN filename
    ELSE SubSeq(filename, 1, LastDot(filename) - 1)

(***************************************************************************)
(* The inputs: the post index, the posts directory, the environment.       *)
(***************************************************************************)
Slugs == {"a", "zz"}
Titles == {"T1"}
Excerpts == {"E1"}
Dates == {"2025-03-01", "soon"}
NoImage == ""
Images == {NoImage, "https://img/x"}
\* the tag lists of the entries: the first tags of this list
AllTags == <<"Java", "java", "Go", "go">>
TagLists == {SubSeq(AllTags, 1, n) : n \in 0..MaxTags}

Entries ==
    [slug : Slugs, title : Titles, excerpt : Excerpts, date : Dates,
     tags : TagLists, featuredImage : Images]

\* a field of the current entry that the run has not read yet
Unread == "(unread)"

NoPost ==
    [slug |-> "", title |-> "", excerpt |-> "", date |-> Unread,
     tags |-> <<>>, featuredImage |-> Unread]

\* posts/<slug>.md exists
MarkdownExists(slug) == slug = "a"

ReadMarkdown(slug) == "# " \o slug

\* marked.parse
Render(markdown) == "<h1>" \o SubSeq(markdown, 3, Len(markdown)) \o "</h1>"

ValidDate(date) == date = "2025-03-01"

\* a conversion that leaves the date as the index gives it
ToISOStringVerbatim(date) == date

\* new Date(date).toISOString()
ToISOString(date) == date \o "T00:00:00.000Z"

NoEnv == [WP_URL |-> "", WP_USERNAME |-> "", WP_APP_PASSWORD |-> ""]

Envs == [WP_URL : {"", "https://blog/"}, WP_USERNAME : {"", "u"},
         WP_APP_PASSWORD : {"", "p"}]

ConfigMissingUrlOnly(e) == e.WP_URL = ""

ConfigMissing(env) ==
    env.WP_URL = "" \/ env.WP_USERNAME = "" \/ env.WP_APP_PASSWORD = ""

(***************************************************************************)
(* The transport.                                                          *)
(***************************************************************************)
Statuses == {200, 201, 404, 429, 500}

Replies ==
    [kind : {"end"}, status : Statuses]
        \cup [kind : {"error", "timeout"}, status : {0}]

\* a transport that takes a 429 for an answer to go on with
ResolvesOr429(reply) ==
    reply.kind = "end"
        /\ (reply.status = 429 \/ (reply.status >= 200 /\ reply.status < 300))

\* wpRequest and uploadMedia resolve on a 2xx response and reject otherwise
Resolves(reply) ==
    reply.kind = "end" /\ reply.status >= 200 /\ reply.status < 300

\* Whether the remote carried a write out: it did when it answered 2xx.
Applied(reply) == {Resolves(reply)}

\* What the image host answers to one GET of downloadImage.
MaxRedirects == 5
\* no download has been made: no redirect, no response, no GET
NoFetch == [redirects |-> 0, status |-> -1, gets |-> 0]
ContentTypes == {"", "image/png"}
ImageReplies ==
    [kind : {"end"}, status : {200, 302, 404}, location : BOOLEAN,
     contentType : ContentTypes]
        \cup [kind : {"error", "silent"}, status : {0}, location : {FALSE},
                 contentType : {""}]

(***************************************************************************)
(* The remote resources.                                                   *)
(***************************************************************************)
PostStatuses == {"publish", "draft", "pending", "private"}

OldPost(slug, status) ==
    [slug |-> slug, status |-> status, title |-> "T0", excerpt |-> "E0",
     content |-> "<p>old</p>", date |-> "2020-01-01T00:00:00.000Z",
     tags |-> <<>>, categories |-> <<>>, featured_media |-> 0]

PostDefaults == [tags |-> <<>>, categories |-> <<>>, featured_media |-> 0]

NoRequest == [method |-> "", path |-> "", id |-> 0, body |-> <<>>]

Request(method, path, id, body) ==
    [method |-> method, path |-> path, id |-> id, body |-> body]

\* A list request is answered in id order, so the first element of the
\* response is the matching resource of least id (0: the response is empty).
First(ids) == IF ids = {} THEN 0 ELSE CHOOSE m \in ids : \A n \in ids : m <= n

\* GET /posts?slug=<slug>[&status=...]
SearchPosts(list, slug, statuses) ==
    {id \in 1..Len(list) : list[id].slug = slug /\ list[id].status \in statuses}

\* GET /tags?search=<q>, GET /categories?search=<q>
SearchTerms(list, q) ==
    {id \in 1..Len(list) : Contains(ToLowerCase(list[id]), ToLowerCase(q))}

\* a media library whose search never answers with an asset
SearchMediaNone(list, q) == {}

\* GET /media?search=<q>
SearchMedia(list, q) == {id \in 1..Len(list) : Contains(list[id].slug, q)}

(***************************************************************************)
(* The state.                                                              *)
(***************************************************************************)
VARIABLES
    mode,            \* how the script is launched: once, twice, two at once
    variant,         \* which script runs
    faults,          \* failures the environment may still cause (-1: any)
    rposts, rtags, rcats, rmedia,      \* the remote site
    posts,           \* the index as run 1 read it (kept when it runs twice)
    snap,            \* the remote site when the second of two runs starts
    pc,              \* where each run stands
    nPosts, i, post, \* main: posts.length, entries taken, the current entry
    k, tagIds, categoryIds, featuredMediaId,   \* publishPost
    image,           \* the content type downloadImage resolved with
    postData, existing,                        \* publishPost
    success, failed,                           \* main
    exitCode,        \* -1 while the process runs
    exitAt,          \* where the process ended
    resolved,        \* per tag of the entry: the id it resolved to, 0 if it failed
    outcomes,        \* per entry taken: its terminal state, "" before
    cause,           \* the step whose error failed the current entry
    imageError,      \* why the entry's image download was rejected
    req,             \* the last write to posts or media issued for the entry
    issued,          \* requests issued for the current entry, by kind
    env,             \* the environment of each run
    startup,         \* how the probe and the reading of the index ended
    catRequests,     \* category requests each run has issued
    searched,        \* setFeaturedImage: how its search of the library ended
    fetched,         \* downloadImage: the chain it met and the GETs it issued
    wire,            \* one request of the transport, followed event by event
    limited          \* the answer a run has just received was a 429

remote == <<rposts, rtags, rcats, rmedia>>
scenario == <<mode, variant, wire>>
twice == <<posts, snap>>
loopVars == <<nPosts, i, post>>
taxVars == <<k, tagIds, categoryIds, resolved>>
mediaVars == <<featuredMediaId, image, imageError, searched, fetched>>
runVars == <<env, startup, catRequests>>
upVars == <<postData, existing>>
counters == <<success, failed>>
exitVars == <<exitCode, exitAt>>
ghost == <<outcomes, cause>>
vars == <<mode, variant, faults, rposts, rtags, rcats, rmedia, posts, snap, pc,
          nPosts, i, post, k, tagIds, categoryIds, featuredMediaId,
          image, postData, existing, success, failed, exitCode, exitAt,
          resolved, outcomes, cause, imageError, req, issued, env, startup, wire,
          limited,
          catRequests, searched>>

Set(f, r, v) == [f EXCEPT ![r] = v]

NoWrites ==
    [create |-> 0, update |-> 0, upload |-> 0, lookup |-> 0, download |-> 0,
     search |-> 0]

\* the terminal state of the current entry of run r
Outcome(r) == IF i[r] = 0 THEN "" ELSE outcomes[r][i[r]]

(***************************************************************************)
(* The transport, event by event: wpRequest and uploadMedia wrap one       *)
(* request in a promise that the handlers of three events settle.          *)
(***************************************************************************)
SnippetLength == 200

RECURSIVE Repeat(_, _)
Repeat(c, n) == IF n = 0 THEN "" ELSE c \o Repeat(c, n - 1)

\* what a response may carry
Bodies == {"", "[]", "[7]", "<html>", "[" \o Repeat("x", SnippetLength)}

WireStatuses == {200, 204, 299, 300, 301, 404, 429, 500}

Responses == [status : WireStatuses, body : Bodies]

\* JSON.parse, on the bodies above: the lists of numbers parse
JSONParse(data) ==
    CASE data = "[]" -> [ok |-> TRUE, items |-> <<>>]
      [] data = "[7]" -> [ok |-> TRUE, items |-> <<7>>]
      [] OTHER -> [ok |-> FALSE, items |-> <<>>]

\* data.substring(0, n)
Substring(data, n) == SubSeq(data, 1, IF Len(data) < n THEN Len(data) ELSE n)

\* an error message that quotes the whole body
SnippetWhole(data) == data

Snippet(data) == Substring(data, SnippetLength)

\* the promise of a call
Pending == [state |-> "pending", items |-> <<>>, text |-> ""]

Fulfilled(items, text) ==
    [state |-> "fulfilled", items |-> items, text |-> text]

Rejected(message) == [state |-> "rejected", items |-> <<>>, text |-> message]

\* a promise that takes every settlement, the last one winning
SettleAgain(promise, outcome) == outcome

\* resolve(...) and reject(...): only a pending promise is settled
Settle(promise, outcome) ==
    IF promise.state = "pending" THEN outcome ELSE promise

\* res.on("end"): 2xx resolves with the parsed body or with the text, any
\* other status rejects with a message
ResponseEnded(fn, method, endpoint, res) ==
    IF res.status >= 200 /\ res.status < 300
    THEN IF JSONParse(res.body).ok
         THEN Fulfilled(JSONParse(res.body).items, "")
         ELSE Fulfilled(<<>>, res.body)
    ELSE Rejected(
            IF fn = "uploadMedia"
            THEN "Media upload " \o ToString(res.status) \o ": "
                    \o Snippet(res.body)
            ELSE IF variant = "publish.js"
            THEN "API " \o ToString(res.status) \o " on " \o method \o " "
                    \o endpoint \o ": " \o Snippet(res.body)
            ELSE "API " \o ToString(res.status) \o " " \o method \o " "
                    \o endpoint \o ": " \o Snippet(res.body))

\* req.on("error")
RequestFailed(fn, method, endpoint) ==
    Rejected(IF fn = "uploadMedia" THEN "Media upload error: ECONNRESET"
             ELSE IF variant = "publish.js"
             THEN "Network error on " \o method \o " " \o endpoint
                    \o ": ECONNRESET"
             ELSE "Network " \o method \o " " \o endpoint
                    \o ": ECONNRESET ECONNRESET")

\* req.setTimeout(...): the request is destroyed and the promise rejected
TimedOut(fn, method, endpoint) ==
    Rejected(IF fn = "uploadMedia" THEN "Media upload timeout"
             ELSE IF variant = "publish.js"
             THEN "Timeout on " \o method \o " " \o endpoint
             ELSE "Timeout " \o method \o " " \o endpoint)

NoResponse == [status |-> 0, body |-> ""]

NoWire ==
    [fn |-> "", method |-> "", endpoint |-> "", promise |-> Pending,
     events |-> <<>>, response |-> NoResponse, destroyed |-> FALSE]

\* the calls the scripts make
Calls(v) ==
    {[NoWire EXCEPT !.fn = "wpRequest", !.method = c[1], !.endpoint = c[2]] :
        c \in {<<"GET", "/posts?per_page=1">>, <<"GET", "/tags?search=Go">>,
               <<"POST", "/tags">>, <<"PUT", "/posts/7">>}}
    \cup IF v = "part_006"
         THEN {[NoWire EXCEPT !.fn = "uploadMedia", !.method = "POST",
                              !.endpoint = "/media"]}
         ELSE {}

(***************************************************************************)
(* The environment's answers.                                              *)
(***************************************************************************)
\* the answers the environment may give to an API request
Answers == IF faults = 0 THEN {a \in Replies : Resolves(a)} ELSE Replies

ImageAnswers ==
    IF faults = 0
    THEN {a \in ImageReplies : a.kind = "end" /\ a.status = 200}
    ELSE ImageReplies

\* run r has received the reply to a request of the API
Heard(r, reply) ==
    limited' = [limited EXCEPT ![r] = reply.kind = "end" /\ reply.status = 429]

\* run r has taken a step that is no request of the API
Quiet(r) == limited' = [limited EXCEPT ![r] = FALSE]

Spend(failure) ==
    faults' = IF failure /\ faults > 0 THEN faults - 1 ELSE faults

(***************************************************************************)
(* Start-up: the environment check, the connectivity probe, the index.     *)
(***************************************************************************)
Exit(r, code, at) ==
    /\ exitCode' = Set(exitCode, r, code)
    /\ exitAt' = Set(exitAt, r, at)
    /\ pc' = Set(pc, r, "exited")

\* run 2 of a double run starts when run 1 has ended
MayStart(r) ==
    \/ r = 1
    \/ mode = "concurrent"
    \/ mode = "twice" /\ pc[1] = "exited"

\* the second of two runs in succession meets the inputs the first one met
Replays(r) == mode = "twice" /\ r = 2

Start(r) ==
    /\ pc[r] = "start"
    /\ Quiet(r)
    /\ MayStart(r)
    /\ \E e \in IF Replays(r) THEN {env[1]} ELSE Envs :
        /\ env' = Set(env, r, e)
        /\ IF ConfigMissing(e)
           THEN Exit(r, 1, "config")
           ELSE /\ pc' = Set(pc, r, "probe")
                /\ UNCHANGED exitVars
    /\ UNCHANGED <<startup, catRequests>>
    /\ snap' = IF Replays(r) THEN remote ELSE snap
    /\ UNCHANGED <<scenario, faults, remote, posts, loopVars, taxVars,
                   mediaVars, upVars, counters, ghost, req, issued>>

ProbeFailedContinues(r) ==
    /\ pc' = Set(pc, r, "readIndex")
    /\ UNCHANGED exitVars

\* the catch of the connection test: the run ends with status 1
ProbeFailed(r) == Exit(r, 1, "probe")

Probe(r) ==
    /\ pc[r] = "probe"
    /\ \E reply \in Answers :
        /\ Spend(~Resolves(reply))
        /\ Heard(r, reply)
        /\ startup' = [startup EXCEPT ![r].probe =
                            IF Resolves(reply) THEN "ok" ELSE "failed"]
        /\ IF Resolves(reply)
           THEN /\ pc' = Set(pc, r, "readIndex")
                /\ UNCHANGED exitVars
           ELSE ProbeFailed(r)
    /\ UNCHANGED <<req, env, catRequests>>
    /\ UNCHANGED <<scenario, remote, twice, loopVars, taxVars, mediaVars,
                   upVars, counters, ghost, issued>>

\* the number of entries of the index a run reads
Lengths(r) ==
    IF Replays(r) /\ exitAt[1] = "summary" THEN {nPosts[1]}
    ELSE IF mode = "concurrent" THEN 0..MaxConcurrentPosts
    ELSE 0..MaxPosts

FatalExitsZero(r, at) == Exit(r, 0, at)

\* the catch of main's promise: an error main does not catch is fatal
Fatal(r, at) == Exit(r, 1, at)

ReadIndex(r) ==
    /\ pc[r] = "readIndex"
    /\ Quiet(r)
    /\ \E wellFormed \in BOOLEAN :
        /\ Replays(r) /\ exitAt[1] \in {"index", "summary"}
              => (wellFormed <=> exitAt[1] = "summary")
        /\ startup' = [startup EXCEPT ![r].index =
                            IF wellFormed THEN "ok" ELSE "failed"]
        /\ IF wellFormed
           THEN /\ \E n \in Lengths(r) : nPosts' = Set(nPosts, r, n)
                /\ pc' = Set(pc, r, "loop")
                /\ UNCHANGED exitVars
           ELSE /\ Fatal(r, "index")
                /\ UNCHANGED nPosts
    /\ UNCHANGED <<scenario, faults, remote, twice, i, post, taxVars,
                   mediaVars, upVars, counters, ghost, req, issued, env,
                   catRequests>>

(***************************************************************************)
(* main's loop over the index.  The index is any sequence of nPosts        *)
(* entries of Entries.  The fields of an entry are independent inputs, and *)
(* the model fixes each at the step that first reads it (the slug when the *)
(* loop takes the entry, the tags, the image URL and the date where        *)
(* publishPost uses them): main never looks ahead, so the runs are those   *)
(* over every such index.  The first of two runs in succession records     *)
(* what it read in posts, and the second reads the same.                   *)
(***************************************************************************)
Recorded(r) == Replays(r) /\ exitAt[1] = "summary"

\* the values the field of the current entry may have
FieldValues(r, field, all) ==
    IF Recorded(r) THEN {posts[i[r]][field]} ELSE all

\* the run reads the field of the current entry
Read(r, field, v) ==
    /\ post' = Set(post, r, [post[r] EXCEPT ![field] = v])
    /\ posts' = IF mode = "twice" /\ r = 1
                THEN [posts EXCEPT ![i[r]] = [@ EXCEPT ![field] = v]]
                ELSE posts

Loop(r) ==
    /\ pc[r] = "loop"
    /\ Quiet(r)
    /\ UNCHANGED runVars
    /\ IF i[r] < nPosts[r]
       THEN /\ \E s \in IF Recorded(r) THEN {posts[i[r] + 1].slug} ELSE Slugs,
                  t \in Titles, x \in Excerpts :
                LET e == [NoPost EXCEPT !.slug = s, !.title = t, !.excerpt = x]
                IN  /\ post' = Set(post, r, e)
                    /\ posts' = IF mode = "twice" /\ r = 1
                                THEN Append(posts, e) ELSE posts
            /\ i' = Set(i, r, i[r] + 1)
            /\ outcomes' = Set(outcomes, r, Append(outcomes[r], ""))
            /\ pc' = Set(pc, r, "load")
       ELSE /\ pc' = Set(pc, r, "summary")
            /\ UNCHANGED <<i, post, posts, outcomes>>
    /\ k' = Set(k, r, 0)
    /\ tagIds' = Set(tagIds, r, <<>>)
    /\ categoryIds' = Set(categoryIds, r, <<>>)
    /\ resolved' = Set(resolved, r, <<>>)
    /\ featuredMediaId' = Set(featuredMediaId, r, 0)
    /\ imageError' = Set(imageError, r, "")
    /\ postData' = Set(postData, r, <<>>)
    /\ existing' = Set(existing, r, 0)
    /\ cause' = Set(cause, r, "")
    /\ req' = Set(req, r, NoRequest)
    /\ issued' = Set(issued, r, NoWrites)
    /\ UNCHANGED <<scenario, faults, remote, snap, nPosts, image, searched,
                   fetched, counters, exitVars>>

\* a main that does not count the posts that return
ReturnedUncounted(r, how) ==
    /\ outcomes' = [outcomes EXCEPT ![r][i[r]] = how]
    /\ pc' = Set(pc, r, "delay500")
    /\ UNCHANGED <<success, failed, cause>>

\* publishPost returned: success++, then delay(500)
Returned(r, how) ==
    /\ outcomes' = [outcomes EXCEPT ![r][i[r]] = how]
    /\ success' = Set(success, r, success[r] + 1)
    /\ pc' = Set(pc, r, "delay500")
    /\ UNCHANGED <<failed, cause>>

\* a main that stops at the first post that fails
ThrewAndStopped(r, at) ==
    /\ outcomes' = [outcomes EXCEPT ![r][i[r]] = "failed"]
    /\ cause' = Set(cause, r, at)
    /\ failed' = Set(failed, r, failed[r] + 1)
    /\ pc' = Set(pc, r, "summary")
    /\ UNCHANGED success

\* publishPost threw: failed++, and on to the next entry
Threw(r, at) ==
    /\ outcomes' = [outcomes EXCEPT ![r][i[r]] = "failed"]
    /\ cause' = Set(cause, r, at)
    /\ failed' = Set(failed, r, failed[r] + 1)
    /\ pc' = Set(pc, r, "loop")
    /\ UNCHANGED success

Delay500(r) ==
    /\ pc[r] = "delay500"
    /\ Quiet(r)
    /\ UNCHANGED runVars
    /\ pc' = Set(pc, r, "loop")
    /\ UNCHANGED <<scenario, faults, remote, twice, loopVars, taxVars,
                   mediaVars, upVars, counters, exitVars, ghost, req, issued>>

\* an exit status that ignores the failures
ExitStatusZero(nFailed) == 0

\* if (failed > 0) process.exit(1); a main that returns ends the process with 0
ExitStatus(nFailed) == IF nFailed > 0 THEN 1 ELSE 0

Summary(r) ==
    /\ pc[r] = "summary"
    /\ Quiet(r)
    /\ UNCHANGED runVars
    /\ Exit(r, ExitStatus(failed[r]), "summary")
    /\ UNCHANGED <<scenario, faults, remote, twice, loopVars, taxVars,
                   mediaVars, upVars, counters, ghost, req, issued>>

(***************************************************************************)
(* publishPost: the markdown file.                                         *)
(***************************************************************************)
\* a publishPost that throws when the markdown file is missing
SkippedAsFailure(r) == Threw(r, "load")

\* no markdown file: publishPost logs the skip and returns
Skipped(r) == Returned(r, "skipped")

Load(r) ==
    /\ pc[r] = "load"
    /\ Quiet(r)
    /\ UNCHANGED runVars
    /\ IF MarkdownExists(post[r].slug)
       THEN /\ \E tags \in FieldValues(r, "tags", TagLists) :
                /\ Read(r, "tags", tags)
                /\ pc' = Set(pc, r, IF tags = <<>> THEN "catSearch"
                                    ELSE "tagSearch")
            /\ k' = Set(k, r, 1)
            /\ UNCHANGED <<counters, ghost>>
       ELSE /\ Skipped(r)
            /\ UNCHANGED <<k, post, posts>>
    /\ UNCHANGED <<scenario, faults, remote, snap, nPosts, i, tagIds,
                   categoryIds, resolved, mediaVars, upVars, exitVars, req,
                   issued>>

(***************************************************************************)
(* publishPost: the tags, one after the other.                             *)
(***************************************************************************)
Tag(r) == post[r].tags[k[r]]

\* a resolution that compares the names as they are written
FindTermCaseSensitive(list, found, name) ==
    First({id \in found : list[id] = name})

\* a resolution that takes the first term of the search result
FindTermAny(list, found, name) == First(found)

\* existing.find((t) => t.name.toLowerCase() === name.toLowerCase())
FindTerm(list, found, name) ==
    First({id \in found : ToLowerCase(list[id]) = ToLowerCase(name)})

\* a publishPost that looks the post up as soon as the tags are done
NextTagPcCheck(r) ==
    IF k[r] < Len(post[r].tags) THEN "tagSearch" ELSE "check"

NextTagPc(r) ==
    IF k[r] < Len(post[r].tags) THEN "tagSearch" ELSE "catSearch"

\* tagIds.push(tagId), then delay(200)
TagResolved(r, id) ==
    /\ tagIds' = Set(tagIds, r, Append(tagIds[r], id))
    /\ resolved' = Set(resolved, r, Append(resolved[r], id))
    /\ pc' = Set(pc, r, "delay200")
    /\ UNCHANGED k

\* a loop over the tags that ends at the first tag that fails
TagFailedBreaks(r) ==
    /\ resolved' = Set(resolved, r, Append(resolved[r], 0))
    /\ k' = Set(k, r, k[r] + 1)
    /\ pc' = Set(pc, r, "catSearch")
    /\ UNCHANGED tagIds

\* the catch of the loop over the tags: the tag is left out
TagFailed(r) ==
    /\ resolved' = Set(resolved, r, Append(resolved[r], 0))
    /\ k' = Set(k, r, k[r] + 1)
    /\ pc' = Set(pc, r, NextTagPc(r))
    /\ UNCHANGED tagIds

TagSearch(r) ==
    /\ pc[r] = "tagSearch"
    /\ UNCHANGED runVars
    /\ \E reply \in Answers :
        /\ Spend(~Resolves(reply))
        /\ Heard(r, reply)
        /\ IF Resolves(reply)
           THEN LET match == FindTerm(rtags, SearchTerms(rtags, Tag(r)), Tag(r))
                IN  IF match # 0
                    THEN TagResolved(r, match)
                    ELSE /\ pc' = Set(pc, r, "tagDelay300")
                         /\ UNCHANGED <<k, tagIds, resolved>>
           ELSE TagFailed(r)
    /\ UNCHANGED req
    /\ UNCHANGED <<scenario, remote, twice, loopVars, categoryIds, mediaVars,
                   upVars, counters, exitVars, ghost, issued>>

TagDelay300(r) ==
    /\ pc[r] = "tagDelay300"
    /\ Quiet(r)
    /\ UNCHANGED runVars
    /\ pc' = Set(pc, r, "tagCreate")
    /\ UNCHANGED <<scenario, faults, remote, twice, loopVars, taxVars,
                   mediaVars, upVars, counters, exitVars, ghost, req, issued>>

TagCreate(r) ==
    /\ pc[r] = "tagCreate"
    /\ UNCHANGED runVars
    /\ \E reply \in Answers :
        /\ Spend(~Resolves(reply))
        /\ Heard(r, reply)
        /\ \E applied \in Applied(reply) :
            rtags' = IF applied THEN Append(rtags, Tag(r)) ELSE rtags
        /\ IF Resolves(reply)
           THEN TagResolved(r, Len(rtags) + 1)
           ELSE TagFailed(r)
    /\ UNCHANGED req
    /\ UNCHANGED <<scenario, rposts, rcats, rmedia, twice, loopVars,
                   categoryIds, mediaVars, upVars, counters, exitVars, ghost,
                   issued>>

TagDelay200(r) ==
    /\ pc[r] = "delay200"
    /\ Quiet(r)
    /\ UNCHANGED runVars
    /\ k' = Set(k, r, k[r] + 1)
    /\ pc' = Set(pc, r, NextTagPc(r))
    /\ UNCHANGED <<scenario, faults, remote, twice, loopVars, tagIds,
                   categoryIds, resolved, mediaVars, upVars, counters,
                   exitVars, ghost, req, issued>>

(***************************************************************************)
(* publishPost: the category "Blog".                                       *)
(***************************************************************************)
BlogCategory == "Blog"

\* what follows the category: the featured image where the script has one
AfterCategoryPc == IF variant = "part_006" THEN "featured" ELSE "assemble"

\* a publishPost without the try around the category: its error escapes
CatFailedThrows(r) ==
    /\ Threw(r, "category")
    /\ UNCHANGED categoryIds

\* the catch around getOrCreateCategory: the post goes out without category
CatFailed(r) ==
    /\ pc' = Set(pc, r, AfterCategoryPc)
    /\ UNCHANGED <<categoryIds, counters, ghost>>

CatSearch(r) ==
    /\ pc[r] = "catSearch"
    /\ catRequests' = [catRequests EXCEPT ![r].search = @ + 1]
    /\ \E reply \in Answers :
        /\ Spend(~Resolves(reply))
        /\ Heard(r, reply)
        /\ IF Resolves(reply)
           THEN LET match == FindTerm(rcats, SearchTerms(rcats, BlogCategory),
                                      BlogCategory)
                IN  /\ IF match # 0
                       THEN /\ categoryIds' = Set(categoryIds, r, <<match>>)
                            /\ pc' = Set(pc, r, AfterCategoryPc)
                       ELSE /\ pc' = Set(pc, r, "catDelay300")
                            /\ UNCHANGED categoryIds
                    /\ UNCHANGED <<counters, ghost>>
           ELSE CatFailed(r)
    /\ UNCHANGED <<req, env, startup>>
    /\ UNCHANGED <<scenario, remote, twice, loopVars, k, tagIds, resolved,
                   mediaVars, upVars, exitVars, issued>>

CatDelay300(r) ==
    /\ pc[r] = "catDelay300"
    /\ Quiet(r)
    /\ UNCHANGED runVars
    /\ pc' = Set(pc, r, "catCreate")
    /\ UNCHANGED <<scenario, faults, remote, twice, loopVars, taxVars,
                   mediaVars, upVars, counters, exitVars, ghost, req, issued>>

CatCreate(r) ==
    /\ pc[r] = "catCreate"
    /\ \E reply \in Answers :
        /\ Spend(~Resolves(reply))
        /\ Heard(r, reply)
        /\ \E applied \in Applied(reply) :
            rcats' = IF applied THEN Append(rcats, BlogCategory) ELSE rcats
        /\ IF Resolves(reply)
           THEN /\ categoryIds' = Set(categoryIds, r, <<Len(rcats) + 1>>)
                /\ pc' = Set(pc, r, AfterCategoryPc)
                /\ UNCHANGED <<counters, ghost>>
           ELSE CatFailed(r)
    /\ catRequests' = [catRequests EXCEPT ![r].create = @ + 1]
    /\ UNCHANGED <<req, env, startup>>
    /\ UNCHANGED <<scenario, rposts, rtags, rmedia, twice, loopVars, k, tagIds,
                   resolved, mediaVars, upVars, exitVars, issued>>

(***************************************************************************)
(* setFeaturedImage, downloadImage, uploadMedia (part_006 only).           *)
(***************************************************************************)
FeaturedFilename(slug) == slug \o "-featured.jpg"

\* setFeaturedImage gave up or returned: publishPost goes on
ImageDone(r, id, why) ==
    /\ featuredMediaId' = Set(featuredMediaId, r, id)
    /\ imageError' = Set(imageError, r, why)
    /\ image' = Set(image, r, "")
    /\ searched' = Set(searched, r, "")
    /\ pc' = Set(pc, r, "assemble")

\* a search of the library that takes no asset for the post's
FindMediaNone(list, found, slug) == 0

\* existing.find((m) => m.slug && m.slug.includes(slug))
FindMedia(list, found, slug) ==
    First({id \in found : Contains(list[id].slug, slug)})

Featured(r) ==
    /\ pc[r] = "featured"
    /\ UNCHANGED runVars
    /\ \E imageUrl \in FieldValues(r, "featuredImage", Images) :
        /\ Read(r, "featuredImage", imageUrl)
        /\ issued' = Set(issued, r,
                         IF imageUrl = NoImage THEN issued[r]
                         ELSE [issued[r] EXCEPT !.search = @ + 1])
        /\ IF imageUrl = NoImage
           THEN /\ ImageDone(r, 0, "")
                /\ Quiet(r)
                /\ UNCHANGED faults
           ELSE /\ \E reply \in Answers :
                    /\ Spend(~Resolves(reply))
                    /\ Heard(r, reply)
                    /\ LET match ==
                             IF Resolves(reply)
                             THEN FindMedia(rmedia,
                                            SearchMedia(rmedia, post[r].slug),
                                            post[r].slug)
                             ELSE 0
                       IN  IF match # 0
                           THEN ImageDone(r, match, "")
                           ELSE /\ pc' = Set(pc, r, "download")
                                /\ searched' =
                                     Set(searched, r, IF Resolves(reply)
                                                      THEN "ok" ELSE "failed")
                                /\ UNCHANGED <<featuredMediaId, image,
                                               imageError>>
    /\ UNCHANGED <<scenario, remote, snap, nPosts, i, taxVars, upVars,
                   counters, exitVars, ghost, req, fetched>>

\* doRequest(url, redirects) of downloadImage, on the answers the hosts give
\* to the GETs one after the other: how the promise settles, the content
\* type it resolves with, and the number of GETs issued
\* the host accepted the connection and sends nothing: no callback of the
\* GET is ever called, and the promise of downloadImage stays pending
NeverSettles == "(pending)"

\* a doRequest that follows every redirect it meets
RECURSIVE DoRequestUnbounded(_, _)
DoRequestUnbounded(answers, n) ==
    LET res == Head(answers)
    IN  IF res.kind = "silent"
        THEN [error |-> NeverSettles, contentType |-> "", gets |-> n + 1]
        ELSE IF res.kind = "error"
        THEN [error |-> "error", contentType |-> "", gets |-> n + 1]
        ELSE IF res.status >= 300 /\ res.status < 400 /\ res.location
        THEN DoRequestUnbounded(Tail(answers), n + 1)
        ELSE IF res.status # 200
        THEN [error |-> "Image download failed", contentType |-> "",
              gets |-> n + 1]
        ELSE [error |-> "",
              contentType |-> IF res.contentType = "" THEN "image/jpeg"
                              ELSE res.contentType,
              gets |-> n + 1]

RECURSIVE DoRequest(_, _)
DoRequest(answers, n) ==
    IF n > MaxRedirects
    THEN [error |-> "Too many redirects", contentType |-> "", gets |-> n]
    ELSE LET res == Head(answers)
         IN  IF res.kind = "silent"
             THEN [error |-> NeverSettles, contentType |-> "", gets |-> n + 1]
             ELSE IF res.kind = "error"
             THEN [error |-> "error", contentType |-> "", gets |-> n + 1]
             ELSE IF res.status >= 300 /\ res.status < 400 /\ res.location
             THEN DoRequest(Tail(answers), n + 1)
             ELSE IF res.status # 200
             THEN [error |-> "Image download failed", contentType |-> "",
                   gets |-> n + 1]
             ELSE [error |-> "",
                   contentType |-> IF res.contentType = "" THEN "image/jpeg"
                                   ELSE res.contentType,
                   gets |-> n + 1]

DownloadImage(answers) == DoRequest(answers, 0)

Redirect == [kind |-> "end", status |-> 302, location |-> TRUE,
             contentType |-> ""]

\* what the hosts may answer to the GETs of one download: some redirects,
\* then any answer
ImageChains ==
    IF faults = 0
    THEN {<<a>> : a \in {x \in ImageReplies : x.kind = "end" /\ x.status = 200}}
    ELSE {[j \in 1..(n + 1) |-> IF j <= n THEN Redirect ELSE last] :
            n \in 0..(MaxRedirects + 1),
            last \in {x \in ImageReplies : ~(x.status = 302 /\ x.location)}}

Download(r) ==
    /\ pc[r] = "download"
    /\ Quiet(r)
    /\ UNCHANGED runVars
    /\ \E answers \in ImageChains :
        LET got == DownloadImage(answers)
        IN  /\ Spend(got.error # "")
            /\ fetched' = Set(fetched, r,
                              [redirects |-> Len(answers) - 1,
                               status |-> answers[Len(answers)].status,
                               gets |-> got.gets])
            /\ IF got.error = NeverSettles
               THEN /\ pc' = Set(pc, r, "waiting")
                    /\ UNCHANGED <<featuredMediaId, image, imageError,
                                   searched>>
               ELSE IF got.error # ""
               THEN ImageDone(r, 0, got.error)
               ELSE /\ image' = Set(image, r, got.contentType)
                    /\ searched' = Set(searched, r, "")
                    /\ pc' = Set(pc, r, "upload")
                    /\ UNCHANGED <<featuredMediaId, imageError>>
    /\ issued' = Set(issued, r, [issued[r] EXCEPT !.download = @ + 1])
    /\ UNCHANGED <<scenario, remote, twice, loopVars, taxVars, upVars,
                   counters, exitVars, ghost, req>>

Upload(r) ==
    /\ pc[r] = "upload"
    /\ UNCHANGED runVars
    /\ LET filename == FeaturedFilename(post[r].slug)
       IN  /\ \E reply \in Answers :
                /\ Spend(~Resolves(reply))
                /\ Heard(r, reply)
                /\ \E applied \in Applied(reply) :
                    rmedia' = IF applied
                              THEN Append(rmedia, [slug |-> MediaSlug(filename)])
                              ELSE rmedia
                /\ IF Resolves(reply)
                   THEN ImageDone(r, Len(rmedia) + 1, "")
                   ELSE ImageDone(r, 0, "Media upload")
           /\ req' = Set(req, r, Request("POST", "/media", 0,
                                         [filename |-> filename,
                                          contentType |-> image[r]]))
    /\ issued' = Set(issued, r, [issued[r] EXCEPT !.upload = @ + 1])
    /\ fetched' = Set(fetched, r, NoFetch)
    /\ UNCHANGED <<scenario, rposts, rtags, rcats, twice, loopVars, taxVars,
                   upVars, counters, exitVars, ghost>>

(***************************************************************************)
(* publishPost: the payload, the lookup by slug, the create or update.     *)
(***************************************************************************)
\* a payload without the excerpt
BasePayloadNoExcerpt(e) ==
    [title |-> e.title, slug |-> e.slug,
     content |-> Render(ReadMarkdown(e.slug)),
     status |-> "publish", date |-> ToISOString(e.date)]

\* const postData = { title, slug, content, excerpt, status, date }
BasePayload(e) ==
    [title |-> e.title, slug |-> e.slug,
     content |-> Render(ReadMarkdown(e.slug)), excerpt |-> e.excerpt,
     status |-> "publish", date |-> ToISOString(e.date)]

\* a payload that carries the field whether or not it has a value
OptionalAlways(present, field) == field

\* if (...) postData.<field> = ...
Optional(present, field) == IF present THEN field ELSE <<>>

PostData(r, e) ==
    IF variant = "publish.js"
    THEN BasePayload(e)
            @@ [tags |-> tagIds[r], categories |-> categoryIds[r]]
    ELSE BasePayload(e)
            @@ Optional(Len(tagIds[r]) > 0, [tags |-> tagIds[r]])
            @@ Optional(Len(categoryIds[r]) > 0,
                        [categories |-> categoryIds[r]])
            @@ Optional(featuredMediaId[r] # 0,
                        [featured_media |-> featuredMediaId[r]])

Assemble(r) ==
    /\ pc[r] = "assemble"
    /\ Quiet(r)
    /\ UNCHANGED runVars
    /\ \E date \in FieldValues(r, "date", Dates) :
        /\ Read(r, "date", date)
        /\ IF ValidDate(date)
           THEN /\ postData' = Set(postData, r,
                                   PostData(r, [post[r] EXCEPT !.date = date]))
                /\ pc' = Set(pc, r, "check")
                /\ UNCHANGED <<counters, ghost>>
           ELSE /\ Threw(r, "assemble")
                /\ UNCHANGED postData
    /\ fetched' = Set(fetched, r, NoFetch)
    /\ UNCHANGED <<scenario, faults, remote, snap, nPosts, i, taxVars,
                   featuredMediaId, image, imageError, searched, existing,
                   exitVars, req, issued>>

\* the statuses the lookup by slug covers: those the request names, or the
\* remote's default (published posts) when it names none
LookupStatuses ==
    IF variant = "publish.js" THEN {"publish", "draft", "pending"}
    ELSE {"publish"}

\* a publishPost that takes a lookup that failed for "no such post"
CheckFailedAbsent(r) ==
    /\ existing' = Set(existing, r, 0)
    /\ pc' = Set(pc, r, "upsert")
    /\ UNCHANGED <<counters, ghost>>

\* the lookup rejects and nothing catches it: publishPost throws
CheckFailed(r) ==
    /\ Threw(r, "check")
    /\ UNCHANGED existing

\* getExistingPost
Check(r) ==
    /\ pc[r] = "check"
    /\ UNCHANGED runVars
    /\ \E reply \in Answers :
        /\ Spend(~Resolves(reply))
        /\ Heard(r, reply)
        /\ IF Resolves(reply)
           THEN /\ existing' = Set(existing, r,
                        First(SearchPosts(rposts, post[r].slug, LookupStatuses)))
                /\ pc' = Set(pc, r, "upsert")
                /\ UNCHANGED <<counters, ghost>>
           ELSE CheckFailed(r)
    /\ issued' = Set(issued, r, [issued[r] EXCEPT !.lookup = @ + 1])
    /\ UNCHANGED req
    /\ UNCHANGED <<scenario, remote, twice, loopVars, taxVars, mediaVars,
                   postData, exitVars>>

\* the remote's PUT /posts/<id>: the fields sent replace the stored ones
Updated(list, id, data) ==
    IF id \in 1..Len(list) THEN [list EXCEPT ![id] = data @@ @] ELSE list

\* a remote that keeps one post per slug and drops a second create
CreatedOncePerSlug(list, data) ==
    IF \E id \in 1..Len(list) : list[id].slug = data.slug THEN list
    ELSE Append(list, data @@ PostDefaults)

\* the remote's POST /posts
Created(list, data) == Append(list, data @@ PostDefaults)

\* a publishPost that creates whatever the lookup answered
UpsertRequestCreating(found, data) == Request("POST", "/posts", 0, data)

\* the request publishPost issues once the lookup has answered: found is
\* the id of the post the lookup returned first, 0 if it returned none
UpsertRequest(found, data) ==
    IF found # 0
    THEN Request("PUT", "/posts/", found, data)
    ELSE Request("POST", "/posts", 0, data)

Upsert(r) ==
    /\ pc[r] = "upsert"
    /\ UNCHANGED runVars
    /\ LET request == UpsertRequest(existing[r], postData[r])
       IN  /\ \E reply \in Answers :
                /\ Spend(~Resolves(reply))
                /\ Heard(r, reply)
                /\ \E applied \in Applied(reply) :
                    rposts' = IF ~applied THEN rposts
                              ELSE IF request.method = "PUT"
                              THEN Updated(rposts, request.id, request.body)
                              ELSE Created(rposts, request.body)
                /\ IF Resolves(reply)
                   THEN Returned(r, IF existing[r] # 0 THEN "updated"
                                    ELSE "created")
                   ELSE Threw(r, "upsert")
           /\ req' = Set(req, r, request)
           /\ issued' = Set(issued, r,
                            IF request.method = "PUT"
                            THEN [issued[r] EXCEPT !.update = @ + 1]
                            ELSE [issued[r] EXCEPT !.create = @ + 1])
    /\ UNCHANGED <<scenario, rtags, rcats, rmedia, twice, loopVars, taxVars,
                   mediaVars, upVars, exitVars>>

(***************************************************************************)
(* The specifications.                                                     *)
(***************************************************************************)
\* what the remote may hold before the first run
InitialPosts ==
    {<<>>,
     <<OldPost("ab", "publish"), OldPost("a", "publish")>>,
     <<OldPost("a", "draft")>>,
     <<OldPost("a", "private")>>,
     <<OldPost("a", "pending"), OldPost("a", "publish")>>}
\* a site without terms and media, and one that has them: a tag whose name
\* contains another's, and categories of one name under several parents
InitialLibraries ==
    {[tags |-> <<>>, categories |-> <<>>, media |-> <<>>],
     [tags |-> <<"javascript", "java">>,
      categories |-> <<"Blogs", "BLOG", "blog">>,
      media |-> <<[slug |-> "ab-featured"]>>]}

\* no run has started
Idle ==
    /\ posts = <<>>
    /\ snap = <<>>
    /\ pc = [r \in Runs |-> "start"]
    /\ nPosts = [r \in Runs |-> 0]
    /\ i = [r \in Runs |-> 0]
    /\ post = [r \in Runs |-> NoPost]
    /\ k = [r \in Runs |-> 0]
    /\ tagIds = [r \in Runs |-> <<>>]
    /\ categoryIds = [r \in Runs |-> <<>>]
    /\ featuredMediaId = [r \in Runs |-> 0]
    /\ image = [r \in Runs |-> ""]
    /\ postData = [r \in Runs |-> <<>>]
    /\ existing = [r \in Runs |-> 0]
    /\ success = [r \in Runs |-> 0]
    /\ failed = [r \in Runs |-> 0]
    /\ exitCode = [r \in Runs |-> -1]
    /\ exitAt = [r \in Runs |-> ""]
    /\ resolved = [r \in Runs |-> <<>>]
    /\ outcomes = [r \in Runs |-> <<>>]
    /\ cause = [r \in Runs |-> ""]
    /\ imageError = [r \in Runs |-> ""]
    /\ req = [r \in Runs |-> NoRequest]
    /\ issued = [r \in Runs |-> NoWrites]
    /\ env = [r \in Runs |-> NoEnv]
    /\ startup = [r \in Runs |-> [probe |-> "", index |-> ""]]
    /\ catRequests = [r \in Runs |-> [search |-> 0, create |-> 0]]
    /\ searched = [r \in Runs |-> ""]
    /\ fetched = [r \in Runs |-> NoFetch]
    /\ limited = [r \in Runs |-> FALSE]

InitIn(m) ==
    /\ mode = m
    /\ variant \in Variants
    /\ faults = CASE m = "single" -> -1
                  [] m = "twice" -> MaxFaults
                  [] m = "concurrent" -> 0
                  [] m = "fair" -> MaxFaults
    /\ rposts \in InitialPosts
    /\ \E lib \in InitialLibraries :
        /\ rtags = lib.tags
        /\ rcats = lib.categories
        /\ rmedia = lib.media
    /\ Idle
    /\ wire = NoWire

Init == InitIn("single")

Step(r) ==
    \/ Start(r) \/ Probe(r) \/ ReadIndex(r) \/ Loop(r) \/ Load(r)
    \/ TagSearch(r) \/ TagDelay300(r) \/ TagCreate(r) \/ TagDelay200(r)
    \/ CatSearch(r) \/ CatDelay300(r) \/ CatCreate(r)
    \/ Featured(r) \/ Download(r) \/ Upload(r)
    \/ Assemble(r) \/ Check(r) \/ Upsert(r) \/ Delay500(r) \/ Summary(r)

Next == \E r \in Runs : Step(r)

Spec == Init /\ [][Next]_vars

\* the script run twice in succession
InitTwice == InitIn("twice")

SpecTwice == InitTwice /\ [][Next]_vars

\* two runs of the script at once
InitConcurrent == InitIn("concurrent")

SpecConcurrent == InitConcurrent /\ [][Next]_vars

\* one run that takes every step it can take: the event loop runs whatever
\* is ready, so a run stops only where nothing is left to run
InitFair == InitIn("fair")

SpecFair == InitFair /\ [][Next]_vars /\ WF_vars(Next)

(***************************************************************************)
(* One request of the transport and the events it meets, in any order:     *)
(* the response ends, the socket reports an error, the timeout fires.      *)
(***************************************************************************)
Happened(kind) == \E j \in 1..Len(wire.events) : wire.events[j] = kind

\* res.on("end", ...)
OnEnd ==
    /\ ~Happened("end")
    /\ \E res \in Responses :
        wire' = [wire EXCEPT
                    !.events = Append(@, "end"),
                    !.response = res,
                    !.promise = Settle(@, ResponseEnded(wire.fn, wire.method,
                                                        wire.endpoint, res))]
    /\ UNCHANGED <<mode, variant, faults, remote, twice, pc, loopVars, taxVars,
                   mediaVars, upVars, counters, exitVars, ghost, req, issued,
                   runVars, limited>>

\* req.on("error", ...): also what destroying the request emits
OnError ==
    /\ ~Happened("error")
    /\ wire' = [wire EXCEPT
                    !.events = Append(@, "error"),
                    !.promise = Settle(@, RequestFailed(wire.fn, wire.method,
                                                        wire.endpoint))]
    /\ UNCHANGED <<mode, variant, faults, remote, twice, pc, loopVars, taxVars,
                   mediaVars, upVars, counters, exitVars, ghost, req, issued,
                   runVars, limited>>

\* req.setTimeout(ms, () => { req.destroy(); reject(...) })
OnTimeout ==
    /\ ~Happened("timeout")
    /\ wire' = [wire EXCEPT
                    !.events = Append(@, "timeout"),
                    !.destroyed = TRUE,
                    !.promise = Settle(@, TimedOut(wire.fn, wire.method,
                                                   wire.endpoint))]
    /\ UNCHANGED <<mode, variant, faults, remote, twice, pc, loopVars, taxVars,
                   mediaVars, upVars, counters, exitVars, ghost, req, issued,
                   runVars, limited>>

InitTransport ==
    /\ mode = "transport"
    /\ variant \in Variants
    /\ faults = 0
    /\ rposts = <<>> /\ rtags = <<>> /\ rcats = <<>> /\ rmedia = <<>>
    /\ Idle
    /\ wire \in Calls(variant)

NextTransport == OnEnd \/ OnError \/ OnTimeout

SpecTransport == InitTransport /\ [][NextTransport]_vars

(***************************************************************************)
(* Properties.                                                             *)
(***************************************************************************)
\* publishPost has returned or thrown for the current entry of run r, and
\* main has not yet gone on to the next one
Ended(r) == pc[r] \in {"delay500", "loop"} /\ Outcome(r) # ""

\* the create or update of the current entry was issued
UpsertActed(r) ==
    \/ Outcome(r) \in {"created", "updated"}
    \/ Outcome(r) = "failed" /\ cause[r] = "upsert"

\* the posts of a slug on the remote, whatever their status
PostsOf(slug) == SearchPosts(rposts, slug, PostStatuses)

\* C1: when the lookup by slug of an entry returned a post, publishPost
\* issues one PUT addressed to the id of that post, a post of the entry's
\* slug, and no POST /posts for the entry.
C1_UpdateOfFoundPost ==
    \A r \in Runs :
        existing[r] # 0 =>
            /\ existing[r] \in PostsOf(post[r].slug)
            /\ issued[r].create = 0
            /\ Ended(r) => /\ issued[r].update = 1
                           /\ req[r].method = "PUT"
                           /\ req[r].id = existing[r]

\* an entry was updated in place at id 2, next to a post of another slug
C1_Witness ==
    /\ Ended(1) /\ Outcome(1) = "updated"
    /\ existing[1] = 2 /\ Len(rposts) = 2
    /\ rposts[1].slug # post[1].slug
    /\ rposts[2].content = "<h1>a</h1>"

\* C2: when the lookup by slug of an entry returned no post, publishPost
\* issues exactly one POST /posts and no PUT, and the payload has status
\* publish, the entry's slug, the ISO-8601 form of the entry's date and the
\* HTML rendered from the entry's markdown.
C2_CreateOfAbsentPost ==
    \A r \in Runs :
        /\ issued[r].create + issued[r].update <= 1
        /\ (Ended(r) /\ existing[r] = 0 /\ UpsertActed(r)) =>
            /\ issued[r].create = 1 /\ issued[r].update = 0
            /\ req[r].method = "POST" /\ req[r].path = "/posts"
            /\ req[r].body.status = "publish"
            /\ req[r].body.slug = post[r].slug
            /\ post[r].date = "2025-03-01"
            /\ req[r].body.date = "2025-03-01T00:00:00.000Z"
            /\ req[r].body.content = "<h1>" \o post[r].slug \o "</h1>"

\* an entry was created on a remote that had no post of its slug
C2_Witness ==
    /\ Ended(1) /\ Outcome(1) = "created" /\ existing[1] = 0
    /\ Cardinality(PostsOf(post[1].slug)) = 1
    /\ rposts[Len(rposts)].date = "2025-03-01T00:00:00.000Z"

AtMostOnePerSlug(list) ==
    \A x, y \in 1..Len(list) : list[x].slug = list[y].slug => x = y

\* C4: a run that starts on a remote with at most one post per slug, of
\* whatever status, ends on one.  The remote never removes a post and never
\* changes a slug, so this is: no step of a run gives a slug a second post.
C4_AtMostOnePostPerSlug ==
    [][AtMostOnePerSlug(rposts) => AtMostOnePerSlug(rposts')]_vars

\* C5: when the current entries of two concurrent runs have the same slug
\* and each run created its entry (the lookup of each returned nothing),
\* the remote holds two posts of that slug: nothing merges the two creates.
C5_ConcurrentDuplicate ==
    (/\ Outcome(1) = "created" /\ Outcome(2) = "created"
     /\ post[1].slug = post[2].slug)
        => Cardinality(PostsOf(post[1].slug)) >= 2

\* both runs looked the slug up on a remote without it, both created it
C5_Witness ==
    /\ mode = "concurrent"
    /\ Outcome(1) = "created" /\ Outcome(2) = "created"
    /\ post[1].slug = post[2].slug
    /\ Len(rposts) = 2
    /\ PostsOf(post[1].slug) = {1, 2}

Failures(r) == {j \in 1..Len(outcomes[r]) : outcomes[r][j] = "failed"}

Successes(r) ==
    {j \in 1..Len(outcomes[r]) :
        outcomes[r][j] \in {"created", "updated", "skipped"}}

Skips(r) == {j \in 1..Len(outcomes[r]) : outcomes[r][j] = "skipped"}

\* C6: a post that fails is counted and the run goes on: the run ends only
\* after the last entry, and the counters are the numbers of the entries
\* that failed and of those that did not.
C6_FailureRecordedRunContinues ==
    \A r \in Runs :
        /\ failed[r] = Cardinality(Failures(r))
        /\ success[r] = Cardinality(Successes(r))
        /\ (pc[r] = "exited" /\ i[r] > 0) => exitAt[r] = "summary"
        /\ pc[r] \in {"summary", "exited"} /\ exitAt[r] \in {"", "summary"}
              => /\ i[r] = nPosts[r]
                 /\ success[r] + failed[r] = nPosts[r]

\* the first entry failed, the second was created: 1 success, 1 failure
C6_Witness ==
    /\ pc[1] = "exited" /\ exitAt[1] = "summary"
    /\ outcomes[1] = <<"failed", "created">>
    /\ success[1] = 1 /\ failed[1] = 1 /\ exitCode[1] = 1

\* C7: the process exits with 0 exactly when it got past the environment
\* check, the probe and the index and every entry was created, updated or
\* skipped; it exits with 1 when an entry failed or the probe failed.
C7_ExitCode ==
    \A r \in Runs :
        IF pc[r] # "exited" THEN exitCode[r] = -1
        ELSE /\ exitCode[r] \in {0, 1}
             /\ exitCode[r] = 0 <=>
                    /\ exitAt[r] = "summary"
                    /\ Successes(r) = 1..nPosts[r]
             /\ (Failures(r) # {} \/ exitAt[r] = "probe") => exitCode[r] = 1

\* a run over a skipped and a created entry exited with 0
C7_Witness ==
    /\ pc[1] = "exited" /\ exitCode[1] = 0
    /\ outcomes[1] = <<"skipped", "created">>

\* C8: an entry without markdown file ends skipped, without a request for
\* it and without a failure counted, and a run in which no entry failed
\* does not exit with 1.
C8_MissingMarkdownSkipped ==
    \A r \in Runs :
        /\ (i[r] > 0 /\ pc[r] # "load" /\ ~MarkdownExists(post[r].slug))
              => /\ Outcome(r) = "skipped"
                 /\ issued[r] = NoWrites
                 /\ existing[r] = 0
        /\ failed[r] + Cardinality(Skips(r)) <= Len(outcomes[r])
        /\ (pc[r] = "exited" /\ exitAt[r] = "summary" /\ Skips(r) # {}
            /\ Failures(r) = {}) => exitCode[r] = 0

\* a run whose entries were a created and a skipped one exited with 0
C8_Witness ==
    /\ pc[1] = "exited" /\ exitCode[1] = 0
    /\ post[1].slug = "zz"
    /\ outcomes[1] = <<"created", "skipped">>
    /\ failed[1] = 0

\* the tag ids a payload carries (a payload without the field carries none)
PayloadTags(data) == IF "tags" \in DOMAIN data THEN data.tags ELSE <<>>

Kept(ids) == SelectSeq(ids, LAMBDA id : id # 0)

\* C9: whichever tags of an entry fail to resolve, every tag is tried, the
\* payload's tags are the ids of those that resolved, each the id of a
\* remote tag of that name, and no tag failure fails the post.
C9_FailedTagsOmitted ==
    \A r \in Runs :
        /\ DOMAIN postData[r] # {} =>
            /\ Len(resolved[r]) = Len(post[r].tags)
            /\ PayloadTags(postData[r]) = Kept(resolved[r])
            /\ \A j \in 1..Len(resolved[r]) :
                  resolved[r][j] # 0 =>
                    /\ resolved[r][j] \in 1..Len(rtags)
                    /\ ToLowerCase(rtags[resolved[r][j]])
                          = ToLowerCase(post[r].tags[j])
        /\ (Ended(r) /\ UpsertActed(r)) =>
              PayloadTags(req[r].body) = Kept(resolved[r])
        /\ (Ended(r) /\ Outcome(r) = "failed") =>
              cause[r] \in {"assemble", "check", "upsert"}

\* the second of two tags failed and the post went out with the first
C9_Witness ==
    /\ Ended(1) /\ Outcome(1) \in {"created", "updated"}
    /\ Len(post[1].tags) = 2
    /\ resolved[1][1] # 0 /\ resolved[1][2] = 0
    /\ req[1].body.tags = <<resolved[1][1]>>

\* C10: when the download of an entry's image ends in a response other than
\* 200, nothing is uploaded, the payload has no featured_media, and the post
\* is created or updated and counted as a success unless the assembly of the
\* payload, the lookup or the create or update itself fails.
C10_ImageNotFound ==
    \A r \in Runs :
        imageError[r] = "Image download failed" =>
            /\ variant = "part_006"
            /\ post[r].featuredImage # NoImage
            /\ issued[r].upload = 0
            /\ DOMAIN postData[r] # {}
                  => "featured_media" \notin DOMAIN postData[r]
            /\ Ended(r) =>
                /\ Outcome(r) # "skipped"
                /\ Outcome(r) = "failed"
                      => cause[r] \in {"assemble", "check", "upsert"}
                /\ UpsertActed(r) => "featured_media" \notin DOMAIN req[r].body
                /\ Outcome(r) \in {"created", "updated"}
                      => /\ i[r] \in Successes(r)
                         /\ success[r] = Cardinality(Successes(r))
                         /\ failed[r] = Cardinality(Failures(r))

\* the image was not found, no media matched, and the post was created
C10_Witness ==
    /\ Ended(1) /\ imageError[1] = "Image download failed"
    /\ SearchMedia(rmedia, post[1].slug) = {}
    /\ Outcome(1) = "created"
    /\ rposts[Len(rposts)].featured_media = 0
    /\ success[1] = 1 /\ failed[1] = 0

(***************************************************************************)
(* The start of a run.                                                     *)
(***************************************************************************)
\* run r has issued no request of an entry and has processed no entry
NoEntryWork(r) ==
    /\ i[r] = 0
    /\ outcomes[r] = <<>>
    /\ issued[r] = NoWrites
    /\ catRequests[r] = [search |-> 0, create |-> 0]
    /\ success[r] = 0 /\ failed[r] = 0

\* C11: a run started with any of WP_URL, WP_USERNAME, WP_APP_PASSWORD
\* missing has ended with status 1 without any request: no connection test,
\* no taxonomy, media or post request, no entry processed.
C11_NoRequestWithoutConfig ==
    \A r \in Runs :
        pc[r] # "start" /\ (\E v \in DOMAIN env[r] : env[r][v] = "") =>
            /\ pc[r] = "exited"
            /\ exitCode[r] = 1
            /\ exitAt[r] = "config"
            /\ startup[r] = [probe |-> "", index |-> ""]
            /\ NoEntryWork(r)

\* a run with the URL and the user set and the password missing has ended
C11_Witness ==
    /\ pc[1] = "exited"
    /\ env[1].WP_URL # "" /\ env[1].WP_USERNAME # ""
    /\ env[1].WP_APP_PASSWORD = ""
    /\ exitCode[1] = 1

\* C12: when the connection test fails, for whatever reason, the run has
\* ended with status 1: the index was not read, no entry was processed and
\* no further request was issued.
C12_ProbeFailureStops ==
    \A r \in Runs :
        startup[r].probe = "failed" =>
            /\ pc[r] = "exited"
            /\ exitCode[r] = 1
            /\ exitAt[r] = "probe"
            /\ startup[r].index = ""
            /\ NoEntryWork(r)

\* a configured run whose connection test failed has ended
C12_Witness ==
    /\ ~ConfigMissing(env[1])
    /\ startup[1].probe = "failed"
    /\ pc[1] = "exited"

\* C13: when the index is not well-formed JSON the run has ended with a
\* non-zero status after the connection test, and no entry was processed.
C13_MalformedIndexFatal ==
    \A r \in Runs :
        startup[r].index = "failed" =>
            /\ pc[r] = "exited"
            /\ exitCode[r] # 0
            /\ exitAt[r] = "index"
            /\ startup[r].probe = "ok"
            /\ NoEntryWork(r)

\* the connection test passed and the index did not parse
C13_Witness ==
    /\ startup[1] = [probe |-> "ok", index |-> "failed"]
    /\ pc[1] = "exited"
    /\ exitCode[1] = 1

(***************************************************************************)
(* The existence check and the payload.                                    *)
(***************************************************************************)
\* C14: the existence check finds a post of the entry's slug whether it is
\* published, a draft or pending: when the lookup has returned no post, the
\* remote holds no post of the slug in any of these three statuses.
C14_DraftPendingFound ==
    \A r \in Runs :
        pc[r] = "upsert" /\ existing[r] = 0 =>
            SearchPosts(rposts, post[r].slug,
                        {"publish", "draft", "pending"}) = {}

BaseFields == {"title", "slug", "content", "excerpt", "status", "date"}

AllFields == BaseFields \cup {"tags", "categories", "featured_media"}

\* C15 as stated: every create and every update carries all of title, slug,
\* content, excerpt, status = publish, date, tags, categories and
\* featured_media, also when no tag, no category or no media was resolved.
C15_FullPayload ==
    \A r \in Runs :
        Ended(r) /\ UpsertActed(r) =>
            /\ AllFields \subseteq DOMAIN req[r].body
            /\ req[r].body.status = "publish"

\* C15, amended: every create and every update carries title, slug, content,
\* excerpt, status = publish and date; it carries the resolved tags and
\* categories whenever there are any (and either an empty list or no field
\* when there are none), and featured_media exactly when a media was
\* resolved; an update that succeeded has set the fields it carried.
C15_PayloadFields ==
    \A r \in Runs :
        Ended(r) /\ UpsertActed(r) =>
            LET body == req[r].body
            IN  /\ BaseFields \subseteq DOMAIN body
                /\ DOMAIN body \subseteq AllFields
                /\ body.status = "publish"
                /\ body.title = post[r].title
                /\ body.slug = post[r].slug
                /\ body.excerpt = post[r].excerpt
                /\ body.content = Render(ReadMarkdown(post[r].slug))
                /\ body.date = ToISOString(post[r].date)
                /\ tagIds[r] # <<>> => "tags" \in DOMAIN body
                /\ "tags" \in DOMAIN body => body.tags = tagIds[r]
                /\ categoryIds[r] # <<>> => "categories" \in DOMAIN body
                /\ "categories" \in DOMAIN body
                      => body.categories = categoryIds[r]
                /\ featuredMediaId[r] # 0 <=> "featured_media" \in DOMAIN body
                /\ "featured_media" \in DOMAIN body
                      => body.featured_media = featuredMediaId[r]
                /\ Outcome(r) = "updated" =>
                      \A f \in DOMAIN body : rposts[req[r].id][f] = body[f]

\* an update that carried neither tags nor categories nor featured_media
C15_Witness ==
    /\ Ended(1) /\ Outcome(1) = "updated"
    /\ DOMAIN req[1].body = BaseFields
    /\ tagIds[1] = <<>> /\ categoryIds[1] = <<>> /\ featuredMediaId[1] = 0

(***************************************************************************)
(* The taxonomy.                                                           *)
(***************************************************************************)
\* C16: the category "Blog" is resolved once per run: whatever the number
\* of entries, a run issues the category search at most once and the
\* category create at most once.
C16_CategoryResolvedOncePerRun ==
    \A r \in Runs :
        /\ catRequests[r].search <= 1
        /\ catRequests[r].create <= 1

\* the terms of the search result for a name that equal it but for the case
Matches(list, name) ==
    {id \in SearchTerms(list, name) :
        ToLowerCase(list[id]) = ToLowerCase(name)}

\* the step of run r that leaves the program point at
Leaves(r, at) == pc[r] = at /\ pc'[r] # at

\* the resolution of the current tag failed: the tag is left out
TagLeftOut(r) ==
    /\ resolved'[r] = Append(resolved[r], 0)
    /\ tagIds'[r] = tagIds[r]
    /\ pc'[r] \notin {"tagDelay300", "tagCreate"}

\* the resolution of the category failed: the category is left out
CategoryLeftOut(r) ==
    /\ categoryIds'[r] = categoryIds[r]
    /\ pc'[r] = AfterCategoryPc

ResolvesTag(r) ==
    LET m == Matches(rtags, Tag(r))
    IN  /\ Leaves(r, "tagSearch") =>
            /\ rtags' = rtags
            /\ \/ TagLeftOut(r)
               \/ /\ m # {}
                  /\ tagIds'[r] = Append(tagIds[r], First(m))
                  /\ pc'[r] = "delay200"
               \/ /\ m = {}
                  /\ tagIds'[r] = tagIds[r]
                  /\ pc'[r] = "tagDelay300"
        /\ Leaves(r, "tagDelay300") => pc'[r] = "tagCreate" /\ rtags' = rtags
        /\ Leaves(r, "tagCreate") =>
            /\ pc'[r] # "tagDelay300"
            /\ \/ TagLeftOut(r) /\ rtags' = rtags
               \/ /\ rtags' = Append(rtags, Tag(r))
                  /\ tagIds'[r] = Append(tagIds[r], Len(rtags'))
                  /\ pc'[r] = "delay200"

ResolvesCategory(r) ==
    LET m == Matches(rcats, BlogCategory)
    IN  /\ Leaves(r, "catSearch") =>
            /\ rcats' = rcats
            /\ \/ CategoryLeftOut(r)
               \/ /\ m # {}
                  /\ categoryIds'[r] = <<First(m)>>
                  /\ pc'[r] = AfterCategoryPc
               \/ /\ m = {}
                  /\ categoryIds'[r] = categoryIds[r]
                  /\ pc'[r] = "catDelay300"
        /\ Leaves(r, "catDelay300") => pc'[r] = "catCreate" /\ rcats' = rcats
        /\ Leaves(r, "catCreate") =>
            /\ pc'[r] # "catDelay300"
            /\ \/ CategoryLeftOut(r) /\ rcats' = rcats
               \/ /\ rcats' = Append(rcats, BlogCategory)
                  /\ categoryIds'[r] = <<Len(rcats')>>
                  /\ pc'[r] = AfterCategoryPc

\* C17: a resolution returns the id of the first term of the search result
\* whose name equals the requested name but for the case, and then issues
\* no create; only when the result holds no such term does it issue one
\* create, of that name, and return the id of the new term. Terms are
\* created by no other step.
C17_ResolveTerm ==
    [][/\ \A r \in Runs : ResolvesTag(r) /\ ResolvesCategory(r)
       /\ rtags' # rtags => \E r \in Runs : Leaves(r, "tagCreate")
       /\ rcats' # rcats => \E r \in Runs : Leaves(r, "catCreate")]_vars

\* the search for "Blog" returned three categories, the second and the third
\* equal to it but for the case, and the second was taken; so were the tags
C17_Witness ==
    /\ rcats = <<"Blogs", "BLOG", "blog">>
    /\ categoryIds[1] = <<2>>
    /\ rtags = <<"javascript", "java">>
    /\ post[1].tags = <<"Java", "java">> /\ tagIds[1] = <<2, 2>>

\* no two terms of the list have names that are equal but for the case
NoTwoEqual(list) ==
    \A a, b \in 1..Len(list) :
        a # b => ToLowerCase(list[a]) # ToLowerCase(list[b])

\* C18: a run keeps the names of the remote's tags, and those of its
\* categories, distinct up to the case: no step of a single run leads from
\* a remote without two such tags (categories) to one with two, also when
\* the index lists one tag in two cases.
C18_TermsStayUnique ==
    [][/\ NoTwoEqual(rtags) => NoTwoEqual(rtags')
       /\ NoTwoEqual(rcats) => NoTwoEqual(rcats')]_vars

\* on a site without terms, "Java" was created and "java" resolved to it
C18_Witness ==
    /\ post[1].tags = <<"Java", "java">>
    /\ rtags = <<"Java">> /\ tagIds[1] = <<1, 1>>
    /\ rcats = <<"Blog">> /\ categoryIds[1] = <<1>>

(***************************************************************************)
(* Errors of the parts of a post.                                          *)
(***************************************************************************)
PayloadCategories(data) ==
    IF "categories" \in DOMAIN data THEN data.categories ELSE <<>>

PayloadMedia(data) ==
    IF "featured_media" \in DOMAIN data THEN data.featured_media ELSE 0

\* C19: whichever of the tag resolutions, the category resolution, the media
\* search, the image download and the upload fail, an entry that is not
\* skipped fails only in the assembly of the payload, in the existence
\* check or in the create or update; unless the assembly fails the check is
\* issued, unless the check fails too the create or update is issued, and
\* its payload carries the parts that did not fail.
C19_PartsNeverFailThePost ==
    \A r \in Runs :
        Ended(r) /\ Outcome(r) # "skipped" =>
            /\ Outcome(r) = "failed"
                  => cause[r] \in {"assemble", "check", "upsert"}
            /\ issued[r].lookup
                  = IF Outcome(r) = "failed" /\ cause[r] = "assemble"
                    THEN 0 ELSE 1
            /\ issued[r].create + issued[r].update
                  = IF UpsertActed(r) THEN 1 ELSE 0
            /\ UpsertActed(r) <=>
                  ~(Outcome(r) = "failed" /\ cause[r] \in {"assemble", "check"})
            /\ UpsertActed(r) =>
                  /\ PayloadTags(req[r].body) = Kept(resolved[r])
                  /\ PayloadCategories(req[r].body) = categoryIds[r]
                  /\ PayloadMedia(req[r].body) = featuredMediaId[r]
                  /\ imageError[r] # "" => featuredMediaId[r] = 0

\* a tag, the category and the upload of the image failed; the post was
\* created with the one tag that resolved
C19_Witness ==
    /\ Ended(1) /\ Outcome(1) = "created"
    /\ Len(resolved[1]) = 2 /\ resolved[1][1] = 0 /\ resolved[1][2] # 0
    /\ categoryIds[1] = <<>>
    /\ imageError[1] = "Media upload"
    /\ DOMAIN req[1].body = BaseFields \cup {"tags"}

(***************************************************************************)
(* The featured image.                                                     *)
(***************************************************************************)
\* the assets of the library whose slug contains the slug of the post
AssetsOf(slug) == {id \in 1..Len(rmedia) : Contains(rmedia[id].slug, slug)}

\* C20: when the search of the media library returned an asset whose slug
\* contains the post's slug, setFeaturedImage returns the id of the first
\* such asset and issues neither a download nor an upload; when the entry
\* has no image URL it returns null and issues no request, no search either.
C20_ReuseOrNothing ==
    \A r \in Runs :
        /\ pc[r] = "download" /\ searched[r] = "ok"
              => AssetsOf(post[r].slug) = {}
        /\ featuredMediaId[r] # 0 /\ issued[r].upload = 0 =>
              /\ issued[r].search = 1
              /\ issued[r].download = 0
              /\ featuredMediaId[r] \in AssetsOf(post[r].slug)
              /\ \A id \in AssetsOf(post[r].slug) : featuredMediaId[r] <= id
        /\ post[r].featuredImage = NoImage =>
              /\ featuredMediaId[r] = 0
              /\ issued[r].search = 0
              /\ issued[r].download = 0
              /\ issued[r].upload = 0

\* the asset "ab-featured" was found for the post "a" and reused
C20_Witness ==
    /\ Ended(1) /\ Outcome(1) = "created"
    /\ post[1].slug = "a" /\ post[1].featuredImage # NoImage
    /\ rmedia = <<[slug |-> "ab-featured"]>>
    /\ featuredMediaId[1] = 1 /\ req[1].body.featured_media = 1
    /\ issued[1].search = 1
    /\ issued[1].download = 0 /\ issued[1].upload = 0

\* C21: downloadImage follows at most 5 redirects. After a chain of at most
\* 5 redirects that ends in a 200 response the download has succeeded with
\* that response; after more than 5 redirects it has failed with "Too many
\* redirects"; after a last response other than 200 it has failed with
\* "Image download failed"; never were more than 6 GETs issued.
C21_AtMostFiveRedirects ==
    \A r \in Runs :
        fetched[r] # NoFetch =>
            LET n == fetched[r].redirects
                last == fetched[r].status
            IN  /\ fetched[r].gets <= MaxRedirects + 1
                /\ fetched[r].gets = IF n > MaxRedirects THEN n ELSE n + 1
                /\ n <= MaxRedirects /\ last = 200
                      => pc[r] = "upload" /\ imageError[r] = ""
                /\ n > MaxRedirects
                      => /\ pc[r] = "assemble"
                         /\ imageError[r] = "Too many redirects"
                /\ n <= MaxRedirects /\ last \notin {0, 200}
                      => /\ pc[r] = "assemble"
                         /\ imageError[r] = "Image download failed"
                /\ pc[r] = "assemble" => featuredMediaId[r] = 0

\* five redirects and then the image: six GETs, and the download succeeded
C21_Witness ==
    /\ fetched[1] = [redirects |-> 5, status |-> 200, gets |-> 6]
    /\ pc[1] = "upload"

\* the file extension a content type stands for
ExtensionOf(contentType) ==
    CASE contentType = "image/png" -> "png"
      [] contentType = "image/jpeg" -> "jpg"
      [] OTHER -> ""

\* C22: an image is uploaded under the name <slug>-featured.<ext>, where
\* ext is the extension of the content type sent with the upload.
C22_ExtensionAgrees ==
    \A r \in Runs :
        req[r].path = "/media" =>
            req[r].body.filename
                = post[r].slug \o "-featured."
                      \o ExtensionOf(req[r].body.contentType)

(***************************************************************************)
(* The transport.                                                          *)
(***************************************************************************)
EndsWith(s, t) ==
    Len(s) >= Len(t) /\ SubSeq(s, Len(s) - Len(t) + 1, Len(s)) = t

\* the first characters of a text, all of them when it has at most n
Prefix(s, n) == IF Len(s) <= n THEN s ELSE SubSeq(s, 1, n)

\* C23: a wpRequest whose response ended rejects when the status is outside
\* 200..299, with a message that holds the status, the method, the endpoint
\* and the first 200 characters of the body at most; it resolves on every
\* 2xx status, with the parsed body when the body is JSON and with the
\* text of the body otherwise.
C23_SettledByStatus ==
    wire.fn = "wpRequest" /\ wire.events # <<>> /\ wire.events[1] = "end" =>
        LET res == wire.response
            p == wire.promise
        IN  IF res.status \in 200..299
            THEN /\ p.state = "fulfilled"
                 /\ p.items = CASE res.body = "[7]" -> <<7>>
                                 [] OTHER -> <<>>
                 /\ p.text = IF res.body \in {"[]", "[7]"} THEN ""
                              ELSE res.body
            ELSE /\ p.state = "rejected"
                 /\ Contains(p.text, ToString(res.status))
                 /\ Contains(p.text, wire.method)
                 /\ Contains(p.text, wire.endpoint)
                 /\ EndsWith(p.text, ": " \o Prefix(res.body, SnippetLength))

\* a 404 with a body of 201 characters was rejected, with a message that
\* does not hold the whole body
C23_Witness ==
    /\ wire.fn = "wpRequest" /\ wire.events = <<"end">>
    /\ wire.response.status = 404
    /\ Len(wire.response.body) = SnippetLength + 1
    /\ wire.promise.state = "rejected"
    /\ ~Contains(wire.promise.text, wire.response.body)

\* C28: a call has one outcome, that of the first of its events: the end
\* of the response, the error of the socket or the timeout. Events that
\* come later, such as the error of the request destroyed by the timeout,
\* leave the outcome as it is.
C28_FirstEventDecides ==
    wire.events # <<>> =>
        wire.promise =
            CASE wire.events[1] = "end" ->
                    ResponseEnded(wire.fn, wire.method, wire.endpoint,
                                  wire.response)
              [] wire.events[1] = "error" ->
                    RequestFailed(wire.fn, wire.method, wire.endpoint)
              [] wire.events[1] = "timeout" ->
                    TimedOut(wire.fn, wire.method, wire.endpoint)

\* the timeout fired, the destroyed request reported its error, and the
\* call is rejected with the timeout
C28_Witness ==
    /\ wire.events = <<"timeout", "error">>
    /\ wire.destroyed
    /\ wire.promise.state = "rejected"
    /\ Contains(wire.promise.text, "Timeout")

(***************************************************************************)
(* The order of the requests.                                              *)
(***************************************************************************)
\* publishPost is resolving the tags, the category or the image, or
\* assembling the payload
Resolving(r) ==
    pc[r] \in {"tagSearch", "tagDelay300", "tagCreate", "delay200",
               "catSearch", "catDelay300", "catCreate",
               "featured", "download", "waiting", "upload", "assemble"}

InPost(r) == Resolving(r) \/ pc[r] \in {"load", "check", "upsert"}

Terminal == {"created", "updated", "skipped", "failed"}

\* C24: the entries are processed one at a time in the order of the index:
\* while an entry is in progress all entries before it have reached a
\* terminal state. Within an entry the existence check is issued only when
\* every tag, the category and the image have been dealt with, and the
\* create or update only when the check has returned.
C24_OneAtATimeInOrder ==
    \A r \in Runs :
        /\ Len(outcomes[r]) = i[r]
        /\ \A j \in 1..Len(outcomes[r]) :
              outcomes[r][j] \notin Terminal => j = i[r] /\ InPost(r)
        /\ issued[r].lookup <= 1
        /\ issued[r].create + issued[r].update <= 1
        /\ Resolving(r) \/ pc[r] = "check" =>
              /\ issued[r].lookup = 0
              /\ issued[r].create + issued[r].update = 0
        /\ pc[r] = "check" =>
              /\ Len(resolved[r]) = Len(post[r].tags)
              /\ catRequests[r].search = i[r] - Cardinality(Skips(r))
              /\ variant = "part_006" => post[r].featuredImage # Unread
              /\ issued[r].download <= issued[r].search
              /\ issued[r].upload <= issued[r].download
        /\ pc[r] = "upsert" =>
              /\ issued[r].lookup = 1
              /\ issued[r].create + issued[r].update = 0
        /\ issued[r].create + issued[r].update = 1 => issued[r].lookup = 1

\* the first entry has failed and the lookup of the second has returned
C24_Witness ==
    /\ i[1] = 2 /\ outcomes[1][1] = "failed"
    /\ pc[1] = "upsert"
    /\ Len(post[1].tags) = 2
    /\ issued[1].lookup = 1 /\ issued[1].create = 0 /\ issued[1].update = 0

(***************************************************************************)
(* The pacing.                                                             *)
(***************************************************************************)
\* C25: a delay follows each post, whatever its outcome: the step in which
\* an entry reaches its terminal state leads to the delay of 500 ms; and
\* the create of a tag is reached only through the delay of 300 ms that
\* follows the search.
C25_DelayAfterEachPost ==
    [][\A r \in Runs :
          /\ Len(outcomes[r]) = i[r] /\ i[r] > 0
                /\ outcomes[r][i[r]] \notin Terminal
                /\ outcomes'[r][i[r]] \in Terminal
                => pc'[r] = "delay500"
          /\ pc'[r] = "tagCreate" /\ pc[r] # "tagCreate"
                => pc[r] = "tagDelay300"
          /\ pc[r] = "tagSearch" => pc'[r] # "tagCreate"]_vars

\* the points at which a run issues a request of the API
RequestPoints ==
    {"probe", "tagSearch", "tagCreate", "catSearch", "catCreate", "featured",
     "upload", "check", "upsert"}

\* run r is where a request that failed leaves it: the run ended by the
\* connection test, the tag or the category left out, the download after a
\* search that failed, no featured media after the upload, the post failed
AfterFailure(r) ==
    \/ pc[r] = "exited" /\ exitAt[r] = "probe" /\ exitCode[r] = 1
    \/ /\ pc[r] \in {"tagSearch", "catSearch"}
       /\ resolved[r] # <<>> /\ resolved[r][Len(resolved[r])] = 0
    \/ pc[r] = AfterCategoryPc /\ categoryIds[r] = <<>>
    \/ pc[r] = "download" /\ searched[r] = "failed"
    \/ /\ pc[r] = "assemble" /\ imageError[r] = "Media upload"
       /\ featuredMediaId[r] = 0
    \/ pc[r] = "loop" /\ Outcome(r) = "failed" /\ cause[r] \in {"check", "upsert"}

C27_FailedLookupWritesNothing ==
    [][\A r \in Runs :
          /\ pc[r] = "check" /\ pc'[r] # "check" /\ pc'[r] # "upsert" =>
                /\ pc'[r] = "loop"
                /\ outcomes'[r][i[r]] = "failed" /\ cause'[r] = "check"
                /\ failed'[r] = failed[r] + 1 /\ success'[r] = success[r]
                /\ issued'[r].create = 0 /\ issued'[r].update = 0
                /\ rposts' = rposts
          /\ pc'[r] = "upsert" /\ pc[r] # "upsert" =>
                /\ pc[r] = "check" /\ issued'[r].lookup = 1
                /\ existing'[r] = 0
                      <=> SearchPosts(rposts, post[r].slug, LookupStatuses) = {}
          /\ outcomes'[r] # outcomes[r] /\ i'[r] = i[r]
                /\ outcomes'[r][i[r]] = "failed" /\ cause'[r] = "check"
                => rposts' = rposts /\ pc[r] = "check"
          /\ rposts' # rposts => pc[1] = "upsert" /\ pc'[1] # "upsert"]_vars

\* the lookup of an entry failed: no create, no update, one failure
C27_Witness ==
    /\ Ended(1) /\ Outcome(1) = "failed" /\ cause[1] = "check"
    /\ issued[1].lookup = 1
    /\ issued[1].create = 0 /\ issued[1].update = 0
    /\ failed[1] = 1 /\ success[1] = 0
    /\ rposts = <<OldPost("a", "draft")>>

\* the entry in progress reaches a terminal state in this step
Ends(r) ==
    /\ i[r] > 0 /\ i'[r] = i[r]
    /\ outcomes[r][i[r]] \notin Terminal
    /\ outcomes'[r][i[r]] \in Terminal

\* C29: each entry increments one of the two counters, once, when it
\* reaches its terminal state: success for an entry created, updated or
\* skipped, failed for one that failed. Between two entries success +
\* failed is the number of entries taken so far, and after the loop it is
\* the number of entries of the index.
C29_CountersAddUp ==
    [][\A r \in Runs :
          /\ Ends(r) /\ outcomes'[r][i[r]] = "failed"
                => failed'[r] = failed[r] + 1 /\ success'[r] = success[r]
          /\ Ends(r) /\ outcomes'[r][i[r]] # "failed"
                => success'[r] = success[r] + 1 /\ failed'[r] = failed[r]
          /\ ~Ends(r) => success'[r] = success[r] /\ failed'[r] = failed[r]
          /\ pc'[r] \in {"loop", "delay500"}
                => success'[r] + failed'[r] = i'[r]
          /\ InPost(r)' => success'[r] + failed'[r] = i'[r] - 1
          /\ pc'[r] = "summary" \/ (pc'[r] = "exited" /\ exitAt'[r] = "summary")
                => success'[r] + failed'[r] = nPosts'[r]]_vars

\* an index of a skipped entry and a failed one: 1 published, 1 failed
C29_Witness ==
    /\ pc[1] = "exited" /\ exitAt[1] = "summary"
    /\ outcomes[1] = <<"skipped", "failed">>
    /\ success[1] = 1 /\ failed[1] = 1 /\ nPosts[1] = 2

\* C30: a run always terminates: every entry reaches a terminal state and
\* the process exits, whatever answers, fails or stays silent.
C30_RunTerminates == <>(pc[1] = "exited")

====
